---- MODULE Spec2Model ----
(***************************************************************************)
(* universal-silabs-flasher: the probing / bootloader-entry orchestration  *)
(* engine (class Flasher, flasher.py) as a state machine.  One Flasher      *)
(* session runs its public coroutines one after the other; every await     *)
(* that talks to the device is a step whose outcome the device chooses.    *)
(***************************************************************************)
EXTENDS Integers, Sequences, FiniteSets, TLC

(* ------------------------------------------------------------------ *)
(* Values                                                             *)
(* ------------------------------------------------------------------ *)

\* Python's None, for every optional field.
None == "None"

\* A local that was never assigned (bootloader_version when gecko.probe raised).
Unbound == "Unbound"

GECKO_BOOTLOADER == "gecko_bootloader"
CPC == "cpc"
EZSP == "ezsp"
ROUTER == "router"
SPINEL == "spinel"

\* The keys of probe_funcs: the application types the engine can probe.
ApplicationType == {GECKO_BOOTLOADER, CPC, EZSP, ROUTER, SPINEL}

\* Default of the constructor's probe_methods argument.
DefaultProbeMethods == <<GECKO_BOOTLOADER, CPC, EZSP, ROUTER, SPINEL>>

\* Exceptions the collaborators raise.
TimeoutError == "TimeoutError"
NoFirmwareError == "NoFirmwareError"
OtherError == "OtherError"
UnboundLocalError == "UnboundLocalError"
ProbeFailed == "RuntimeError: Failed to probe running application type"
NotEmberZNet == "RuntimeError: Device is not running EmberZNet"
EzspRefused == "RuntimeError: EmberZNet could not enter the bootloader"
InvalidAppType == "RuntimeError: Invalid application type"

\* The types argument of probe_app_type left at its default (None).
TypesNone == <<None>>

\* bootloader_probe = None
NoProbe == [version |-> None, continue_probing |-> FALSE, baudrate |-> None]

(* ------------------------------------------------------------------ *)
(* Bounds and input sets                                              *)
(* ------------------------------------------------------------------ *)

\* Number of public coroutines one session runs.
MaxOps == 2

\* The version string a device running each application reports.
Versions(m) ==
  CASE m = GECKO_BOOTLOADER -> {"2.1.1"}
    [] m = CPC -> {"4.4.3"}
    [] OTHER -> {"7.4.4.0"}

\* EUI64 addresses.
IEEE == {"00:11:22:33:44:55:66:77", "11:22:33:44:55:66:77:88"}

\* Reset targets: one driven by a GPIO pattern, one by the serial DTR/RTS pulse.
GPIO_CONFIGS == {"yellow"}
ResetTarget == {"yellow", "sonoff"}

\* Constructor arguments the sessions are run with.
ProbeMethodsChoices == {DefaultProbeMethods, <<EZSP, CPC, GECKO_BOOTLOADER>>}

BaudratesChoice ==
  [m \in ApplicationType |->
     CASE m = GECKO_BOOTLOADER -> <<"115200", "230400">>
       [] m = CPC -> <<"460800", "115200">>
       [] m = EZSP -> <<"115200">>
       [] m = ROUTER -> <<"115200">>
       [] m = SPINEL -> <<"460800">>]

\* Arguments probe_app_type is called with from outside.
ProbeArgs ==
  {<<TypesNone, <<>>>>,
   <<TypesNone, <<GECKO_BOOTLOADER, EZSP>>>>,
   <<<<GECKO_BOOTLOADER>>, <<>>>>,
   <<<<SPINEL, EZSP, CPC>>, <<CPC, SPINEL>>>>}

(* ------------------------------------------------------------------ *)
(* State                                                              *)
(* ------------------------------------------------------------------ *)

VARIABLES
  probe_methods,        \* self._probe_methods
  baudrates,            \* self._baudrates
  reset_target,         \* self._reset_target
  app_type,             \* self.app_type
  app_version,          \* self.app_version
  app_baudrate,         \* self.app_baudrate
  bootloader_baudrate,  \* self.bootloader_baudrate
  op,                   \* the public coroutine in progress
  pc,                   \* where it stands
  nops,                 \* coroutines started so far
  error,                \* the exception that ended the coroutine, or None
  retval,               \* its return value
  arg_types,            \* probe_app_type: the types argument
  arg_try_first,        \* probe_app_type: the try_first argument
  p_ret,                \* probe_app_type: where its caller continues
  types,                \* probe_app_type: types, reordered
  idx,                  \* probe_app_type: position of the for loop in the pairs
  bootloader_probe,     \* probe_app_type: bootloader_probe
  run_firmware,         \* probe_app_type: run_firmware
  version,              \* probe function: the version local
  exc,                  \* the exception in flight, or None
  r_ret,                \* enter_bootloader_reset: where its caller continues
  conns,                \* the serial connections that are open, oldest first
  exit_to,              \* where control goes when the open async with ends
  new_ieee,             \* write_emberznet_eui64: new_ieee
  force,                \* write_emberznet_eui64: force
  current_ieee,         \* write_emberznet_eui64: current_ieee
  attempts,             \* log: the probes attempted by the running probe_app_type call
  resets,               \* log: reset triggers sent by the running probe_app_type call
  probe_calls,          \* log: the probe_app_type calls of the running coroutine
  commands,             \* log: commands sent by the running coroutine itself
  entry,                \* log: the session fields when the coroutine started
  bootloader_seen,      \* log: the baud rate the bootloader last answered a probe at
  state,                \* RouterProtocol: self._state_machine.state
  waiters,              \* StateMachine: the tasks registered as waiting, per state
  buffer,               \* RouterProtocol: self._buffer
  router_version,       \* RouterProtocol: self._version
  tasks,                \* the coroutines that use the protocol object
  received,             \* data_received calls so far
  data,                 \* log: the argument of the last data_received call
  frames,               \* CPC: the frames the peer serialised
  chunking,             \* CPC: how the peer's bytes are cut into chunks
  wire,                 \* CPC: the bytes not yet handed to data_received
  cpc_buffer,           \* CPCProtocol: self._buffer
  frame_received,       \* CPCProtocol: the frames handed to frame_received, in order
  checksum_failed       \* log: the last data_received call met a failed checksum

config == <<probe_methods, baudrates, reset_target>>
session == <<app_type, app_version, app_baudrate, bootloader_baudrate>>
probe_args == <<arg_types, arg_try_first, p_ret>>
probe_locals == <<types, idx, bootloader_probe, run_firmware>>
write_args == <<new_ieee, force>>
logs == <<attempts, resets, probe_calls, commands, entry>>

\* The Flasher object and its coroutines.
flasher == <<probe_methods, baudrates, reset_target,
             app_type, app_version, app_baudrate, bootloader_baudrate,
             op, pc, nops, error, retval, arg_types, arg_try_first, p_ret,
             types, idx, bootloader_probe, run_firmware, version, exc, r_ret,
             conns, exit_to, new_ieee, force, current_ieee,
             attempts, resets, probe_calls, commands, entry, bootloader_seen>>

\* One RouterProtocol object (with its StateMachine) and one CPCProtocol object.
router == <<state, waiters, buffer, router_version, tasks, received, data>>
cpc == <<frames, chunking, wire, cpc_buffer, frame_received, checksum_failed>>
protocols == <<router, cpc>>

vars == <<probe_methods, baudrates, reset_target,
          app_type, app_version, app_baudrate, bootloader_baudrate,
          op, pc, nops, error, retval, arg_types, arg_try_first, p_ret,
          types, idx, bootloader_probe, run_firmware, version, exc, r_ret,
          conns, exit_to, new_ieee, force, current_ieee,
          attempts, resets, probe_calls, commands, entry, bootloader_seen,
          state, waiters, buffer, router_version, tasks, received, data,
          frames, chunking, wire, cpc_buffer, frame_received, checksum_failed>>

(* ------------------------------------------------------------------ *)
(* Helpers                                                            *)
(* ------------------------------------------------------------------ *)

InSeq(x, s) == \E i \in 1..Len(s) : s[i] = x

Last(s) == s[Len(s)]

SetLast(s, e) == [s EXCEPT ![Len(s)] = e]

\* A reordering that takes the first partition in the order of try_first.
ReorderByTryFirstOrder(ts, tf) ==
  SelectSeq(tf, LAMBDA m : InSeq(m, ts)) \o SelectSeq(ts, LAMBDA m : ~InSeq(m, tf))

\* [m for m in types if m in try_first] + [m for m in types if m not in try_first]
Reorder(ts, tf) ==
  SelectSeq(ts, LAMBDA m : InSeq(m, tf)) \o SelectSeq(ts, LAMBDA m : ~InSeq(m, tf))

\* ((m, b) for m in types for b in self._baudrates[m])
RECURSIVE Pairs(_, _)
Pairs(ts, br) ==
  IF ts = <<>> THEN <<>>
  ELSE [i \in 1..Len(br[Head(ts)]) |-> <<Head(ts), br[Head(ts)][i]>>]
       \o Pairs(Tail(ts), br)

\* The candidate (type, baud rate) pairs of the running probe_app_type call.
Candidates == Pairs(types, baudrates)

\* The protocol class each connection is made with.
Protocol(m) ==
  CASE m = GECKO_BOOTLOADER -> "GeckoBootloaderProtocol"
    [] m = CPC -> "CPCProtocol"
    [] m = EZSP -> "EZSP"
    [] m = ROUTER -> "RouterProtocol"
    [] m = SPINEL -> "SpinelProtocol"

Connection(m, b) == [proto |-> Protocol(m), baud |-> b]

ButLast(s) == SubSeq(s, 1, Len(s) - 1)

\* A connect_ezsp without its try/finally: the body's exception skips disconnect.
connect_ezsp_exit_no_finally(cs, raised) == IF raised THEN cs ELSE ButLast(cs)

\* connect_ezsp: finally: await ezsp.disconnect()
connect_ezsp_exit(cs, raised) == ButLast(cs)

\* connect_protocol: the connection is released on every exit path.
connect_protocol_exit(cs, raised) == ButLast(cs)

(* ------------------------------------------------------------------ *)
(* The protocol objects before they are used                          *)
(* ------------------------------------------------------------------ *)

\* class State(str, enum.Enum)
STARTUP == "startup"
BOOTWAIT == "bootwait"
INFO == "info"
READY == "ready"
State == {STARTUP, BOOTWAIT, INFO, READY}

\* The coroutines that may use one protocol object.
Tasks == {"t1", "t2"}

\* None where a byte string may stand: a value that is no byte string.
NoBytes == <<None>>

\* A coroutine that is not running.
Idle ==
  [op |-> None, pc |-> "idle", target |-> None, ret |-> None, woken |-> FALSE,
   error |-> None, result |-> NoBytes]

\* RouterProtocol.__init__: the state machine starts in STARTUP, no version.
RouterProtocol_init ==
  /\ state = STARTUP
  /\ waiters = [s \in State |-> {}]
  /\ buffer = <<>>
  /\ router_version = NoBytes
  /\ tasks = [t \in Tasks |-> Idle]
  /\ received = 0
  /\ data = <<>>

\* CPCProtocol(): nothing buffered, nothing delivered.
CPCProtocol_init ==
  /\ frames = <<>>
  /\ chunking = None
  /\ wire = <<>>
  /\ cpc_buffer = <<>>
  /\ frame_received = <<>>
  /\ checksum_failed = FALSE

(* ------------------------------------------------------------------ *)
(* Init                                                               *)
(* ------------------------------------------------------------------ *)

\* Flasher.__init__
Flasher_init ==
  /\ probe_methods \in ProbeMethodsChoices
  /\ baudrates = BaudratesChoice
  /\ reset_target \in ResetTarget \cup {None}
  /\ app_type = None
  /\ app_version = None
  /\ app_baudrate = None
  /\ bootloader_baudrate = None
  /\ op = None
  /\ pc = "done"
  /\ nops = 0
  /\ error = None
  /\ retval = None
  /\ arg_types = TypesNone
  /\ arg_try_first = <<>>
  /\ p_ret = "done"
  /\ types = <<>>
  /\ idx = 1
  /\ bootloader_probe = NoProbe
  /\ run_firmware = FALSE
  /\ version = Unbound
  /\ exc = None
  /\ r_ret = "done"
  /\ conns = <<>>
  /\ exit_to = "done"
  /\ new_ieee = None
  /\ force = FALSE
  /\ current_ieee = None
  /\ attempts = <<>>
  /\ resets = 0
  /\ probe_calls = <<>>
  /\ commands = <<>>
  /\ entry = [app_type |-> None, app_version |-> None, app_baudrate |-> None,
              bootloader_baudrate |-> None]
  /\ bootloader_seen = None

Init ==
  /\ Flasher_init
  /\ RouterProtocol_init
  /\ CPCProtocol_init

(* ------------------------------------------------------------------ *)
(* Shared steps                                                       *)
(* ------------------------------------------------------------------ *)

\* A public coroutine starts: the previous one has ended.
Begin(name) ==
  /\ pc = "done"
  /\ nops < MaxOps
  /\ nops' = nops + 1
  /\ op' = name
  /\ error' = None
  /\ retval' = None
  /\ exc' = None
  /\ version' = Unbound
  /\ current_ieee' = None
  /\ attempts' = <<>>
  /\ resets' = 0
  /\ commands' = <<>>
  /\ entry' = [app_type |-> app_type, app_version |-> app_version,
               app_baudrate |-> app_baudrate,
               bootloader_baudrate |-> bootloader_baudrate]
  /\ types' = <<>>
  /\ idx' = 1
  /\ bootloader_probe' = NoProbe
  /\ run_firmware' = FALSE
  /\ r_ret' = "done"
  /\ exit_to' = "done"
  /\ UNCHANGED <<protocols, config, bootloader_seen, session, conns>>

\* await self.probe_app_type(types=ts, try_first=tf), the caller continuing at ret;
\* calls are the probe_app_type calls the coroutine has made before this one.  The
\* log keeps the session fields as they are when the call is made.
Call_probe_app_type(ts, tf, ret, calls) ==
  /\ arg_types' = ts
  /\ arg_try_first' = tf
  /\ p_ret' = ret
  /\ probe_calls' = Append(calls, [types |-> ts, try_first |-> tf,
                                   before |-> session])
  /\ pc' = "pat_begin"

\* No probe_app_type call is in progress.
No_probe_app_type ==
  /\ arg_types' = TypesNone
  /\ arg_try_first' = <<>>
  /\ p_ret' = "done"
  /\ probe_calls' = <<>>

\* No write_emberznet_eui64 arguments.
No_write_args ==
  /\ new_ieee' = None
  /\ force' = FALSE

\* An exception leaves the coroutine: inside the try of the probe loop it reaches
\* the loop's handler, anywhere else it ends the public coroutine.
Propagate(e, after) ==
  IF after = "pat_result"
  THEN pc' = "pat_result" /\ exc' = e /\ error' = error
  ELSE pc' = "done" /\ exc' = None /\ error' = e

\* async with connect(c): the connection is made and the body runs, or connecting
\* fails and nothing was opened.
Connect(c, body, after) ==
  \E o \in {"ok", TimeoutError, OtherError} :
    IF o = "ok"
    THEN /\ conns' = Append(conns, c)
         /\ pc' = body
         /\ exit_to' = after
         /\ UNCHANGED <<exc, error>>
    ELSE /\ Propagate(o, after)
         /\ UNCHANGED <<conns, exit_to>>

\* The end of an async with block, by return or by exception.
context_exit ==
  /\ pc = "aexit"
  /\ conns' = IF Last(conns).proto = "EZSP"
               THEN connect_ezsp_exit(conns, exc # None)
               ELSE connect_protocol_exit(conns, exc # None)
  /\ IF exc # None
       THEN Propagate(exc, exit_to)
       ELSE pc' = exit_to /\ UNCHANGED <<exc, error>>
  /\ UNCHANGED <<protocols, config, bootloader_seen, session, op, nops, retval, probe_args,
                 probe_locals, version, r_ret, exit_to, write_args, current_ieee,
                 logs>>

(* ------------------------------------------------------------------ *)
(* enter_bootloader_reset, enter_serial_bootloader                    *)
(* ------------------------------------------------------------------ *)

\* The reset target is pulsed through GPIO, or the serial DTR/RTS sequence is
\* started on a connection of its own at the first bootloader baud rate.
enter_bootloader_reset ==
  /\ pc = "reset"
  /\ IF reset_target \in GPIO_CONFIGS
       THEN /\ resets' = resets + 1
            /\ pc' = r_ret
            /\ UNCHANGED <<conns, exit_to>>
       ELSE /\ conns' = Append(conns, [proto |-> "SerialProtocol",
                                        baud |-> baudrates[GECKO_BOOTLOADER][1]])
            /\ exit_to' = r_ret
            /\ pc' = "serial_reset"
            /\ UNCHANGED resets
  /\ UNCHANGED <<protocols, config, bootloader_seen, session, op, nops, error, retval, probe_args,
                 probe_locals, version, exc, r_ret, write_args, current_ieee,
                 attempts, probe_calls, commands, entry>>

\* The DTR/RTS pulses are sent; the async with block ends next.
enter_serial_bootloader ==
  /\ pc = "serial_reset"
  /\ resets' = resets + 1
  /\ pc' = "aexit"
  /\ UNCHANGED <<protocols, config, bootloader_seen, session, op, nops, error, retval, probe_args,
                 probe_locals, version, exc, r_ret, conns, exit_to, write_args,
                 current_ieee, attempts, probe_calls, commands, entry>>

(* ------------------------------------------------------------------ *)
(* The probe functions                                                *)
(* ------------------------------------------------------------------ *)

\* What a probe function hands to its caller: an exception or a ProbeResult.
Raised(e) == [exc |-> e, result |-> NoProbe]
Returned(v, b, c) ==
  [exc |-> None, result |-> [version |-> v, continue_probing |-> c, baudrate |-> b]]

\* A bootloader probe that asks to go on probing although nothing was launched.
probe_gecko_bootloader_continuing(b, rf, v, e) ==
  IF e = NoFirmwareError
  THEN IF v = Unbound THEN Raised(UnboundLocalError) ELSE Returned(v, b, rf)
  ELSE IF e # None THEN Raised(e) ELSE Returned(v, b, rf)

\* A bootloader probe that asks to go on probing whenever the firmware launched,
\* whether or not the caller asked for the launch.
probe_gecko_bootloader_always_continuing(b, rf, v, e) ==
  IF e = NoFirmwareError
  THEN IF v = Unbound THEN Raised(UnboundLocalError) ELSE Returned(v, b, FALSE)
  ELSE IF e # None THEN Raised(e) ELSE Returned(v, b, TRUE)

\* probe_gecko_bootloader once its async with block has ended with exception e (or
\* None) and bootloader_version v.  NoFirmwareError is the one exception it catches;
\* its handler reads bootloader_version, which is unbound when gecko.probe raised.
probe_gecko_bootloader(b, rf, v, e) ==
  IF e = NoFirmwareError
  THEN IF v = Unbound THEN Raised(UnboundLocalError) ELSE Returned(v, b, FALSE)
  ELSE IF e # None THEN Raised(e) ELSE Returned(v, b, rf)

\* probe_cpc, probe_ezsp, probe_router, probe_spinel.
probe_application(b, v, e) ==
  IF e # None THEN Raised(e) ELSE Returned(v, b, FALSE)

\* probe_funcs[probe_method](baudrate=baudrate)
probe_funcs(m, b, rf, v, e) ==
  IF m = GECKO_BOOTLOADER
  THEN probe_gecko_bootloader(b, rf, v, e)
  ELSE probe_application(b, v, e)

(* ------------------------------------------------------------------ *)
(* probe_app_type                                                     *)
(* ------------------------------------------------------------------ *)

\* The entry of one probe attempt in the log.
Attempt(m, b) ==
  [method |-> m, baudrate |-> b, outcome |-> "pending", version |-> None,
   result_baudrate |-> None, launched |-> FALSE]

\* Lines 183-202: the candidate order, the reset, the locals.
probe_app_type_begin ==
  /\ pc = "pat_begin"
  /\ LET given == IF arg_types = TypesNone THEN probe_methods ELSE arg_types
          ts == Reorder(given, arg_try_first)
      IN /\ types' = ts
         /\ run_firmware' = (reset_target # None /\ ts # <<GECKO_BOOTLOADER>>)
  /\ bootloader_probe' = NoProbe
  /\ idx' = 1
  /\ attempts' = <<>>
  /\ resets' = 0
  /\ IF reset_target # None
       THEN pc' = "reset" /\ r_ret' = "pat_loop"
       ELSE pc' = "pat_loop" /\ UNCHANGED r_ret
  /\ UNCHANGED <<protocols, config, bootloader_seen, session, op, nops, error, retval, probe_args,
                 version, exc, conns, exit_to, write_args, current_ieee,
                 probe_calls, commands, entry>>

\* A loop head that probes the bootloader at every one of its baud rates.
ProbeBootloaderAgain(m, bp) == FALSE

\* if probe_method == GECKO_BOOTLOADER and bootloader_probe is not None: continue
AlreadyProbed(m, bp) == m = GECKO_BOOTLOADER /\ bp # NoProbe

\* Lines 215-226: the head of the for loop.
probe_loop ==
  /\ pc = "pat_loop"
  /\ IF idx > Len(Candidates)
       THEN /\ pc' = "pat_else"
            /\ UNCHANGED <<idx, attempts, version, exc>>
       ELSE LET m == Candidates[idx][1]
                b == Candidates[idx][2]
            IN IF AlreadyProbed(m, bootloader_probe)
               THEN /\ idx' = idx + 1
                    /\ pc' = "pat_loop"
                    /\ UNCHANGED <<attempts, version, exc>>
               ELSE /\ attempts' = Append(attempts, Attempt(m, b))
                    /\ version' = Unbound
                    /\ exc' = None
                    /\ pc' = "pat_connect"
                    /\ UNCHANGED idx
  /\ UNCHANGED <<protocols, config, bootloader_seen, session, op, nops, error, retval, probe_args,
                 types, bootloader_probe, run_firmware, r_ret, conns, exit_to,
                 write_args, current_ieee, resets, probe_calls, commands, entry>>

\* async with self._connect_<type>(baudrate)
probe_connect ==
  /\ pc = "pat_connect"
  /\ Connect(Connection(Candidates[idx][1], Candidates[idx][2]),
             "pat_exchange", "pat_result")
  /\ UNCHANGED <<protocols, config, bootloader_seen, session, op, nops, retval, probe_args,
                 probe_locals, version, r_ret, write_args, current_ieee, logs>>

\* await <protocol>.probe() / await ezsp.get_board_info()
probe_exchange ==
  /\ pc = "pat_exchange"
  /\ LET m == Candidates[idx][1]
      IN \/ \E v \in Versions(m) :
              /\ version' = v
              /\ exc' = None
              /\ pc' = IF m = GECKO_BOOTLOADER /\ run_firmware
                        THEN "pat_run_firmware" ELSE "aexit"
         \/ \E e \in {TimeoutError, OtherError} \cup
                       (IF m = GECKO_BOOTLOADER THEN {NoFirmwareError} ELSE {}) :
              /\ exc' = e
              /\ pc' = "aexit"
              /\ UNCHANGED version
  /\ UNCHANGED <<protocols, config, bootloader_seen, session, op, nops, error, retval, probe_args,
                 probe_locals, r_ret, conns, exit_to, write_args, current_ieee,
                 logs>>

\* await gecko.run_firmware(): the application is launched when it returns.
gecko_run_firmware ==
  /\ pc = "pat_run_firmware"
  /\ exc' \in {None, NoFirmwareError, TimeoutError, OtherError}
  /\ attempts' = SetLast(attempts, [Last(attempts) EXCEPT !.launched = (exc' = None)])
  /\ pc' = "aexit"
  /\ UNCHANGED <<protocols, config, bootloader_seen, session, op, nops, error, retval, probe_args,
                 probe_locals, version, r_ret, conns, exit_to, write_args,
                 current_ieee, resets, probe_calls, commands, entry>>

\* A handler that swallows every exception of a probe (except Exception: continue).
SkipOnAnyException(e) == "continue"

\* except asyncio.TimeoutError: continue -- any other exception leaves the loop.
OnProbeException(e) == IF e = TimeoutError THEN "continue" ELSE "raise"

\* A loop that goes on after every result (the break is missing).
NeverBreak(r) == "continue"

\* if result.continue_probing: continue -- else the result wins and the loop breaks.
OnProbeResult(r) == IF r.continue_probing THEN "continue" ELSE "break"

\* A result of any type taken for the bootloader's.
KeepsEveryBaudrate(m) == TRUE

\* if probe_method == ApplicationType.GECKO_BOOTLOADER (line 236)
KeepsBootloaderProbe(m) == m = GECKO_BOOTLOADER

\* Lines 228-247: the probe function has returned or raised.
probe_result ==
  /\ pc = "pat_result"
  /\ LET m == Candidates[idx][1]
          b == Candidates[idx][2]
          out == probe_funcs(m, b, run_firmware, version, exc)
          r == out.result
          log(o) == SetLast(attempts, [Last(attempts) EXCEPT
                                        !.outcome = o,
                                        !.version = r.version,
                                        !.result_baudrate = r.baudrate])
      IN IF out.exc # None
         THEN /\ attempts' = log(IF out.exc = TimeoutError THEN "timeout" ELSE "error")
              /\ IF OnProbeException(out.exc) = "continue"
                   THEN /\ idx' = idx + 1
                        /\ pc' = "pat_loop"
                        /\ UNCHANGED error
                   ELSE /\ pc' = "done"
                        /\ error' = out.exc
                        /\ UNCHANGED idx
              /\ UNCHANGED <<session, bootloader_probe, bootloader_seen>>
         ELSE /\ attempts' = log(IF r.continue_probing THEN "continue" ELSE "final")
              /\ IF KeepsBootloaderProbe(m)
                   THEN /\ bootloader_probe' = r
                        /\ bootloader_baudrate' = r.baudrate
                        /\ bootloader_seen' = b
                   ELSE UNCHANGED <<bootloader_probe, bootloader_baudrate,
                                    bootloader_seen>>
              /\ IF OnProbeResult(r) = "continue"
                   THEN /\ idx' = idx + 1
                        /\ pc' = "pat_loop"
                        /\ UNCHANGED <<app_type, app_version, app_baudrate>>
                   ELSE /\ app_type' = m
                        /\ app_version' = r.version
                        /\ app_baudrate' = r.baudrate
                        /\ pc' = "pat_return"
                        /\ UNCHANGED idx
              /\ UNCHANGED error
  /\ exc' = None
  /\ UNCHANGED <<protocols, config, op, nops, retval, probe_args, types,
                 run_firmware, version, r_ret, conns, exit_to, write_args,
                 current_ieee, resets, probe_calls, commands, entry>>

\* An else branch without the fallback: exhaustion always raises.
NeverFallback(bp, rt) == FALSE

\* A fallback that does not ask whether the bootloader answered a probe.
FallbackOnResetTargetAlone(bp, rt) == rt # None

\* if bootloader_probe and self._reset_target
FallbackToBootloader(bp, rt) == bp # NoProbe /\ rt # None

\* Lines 248-252, 260: the loop ran out of candidates.
probe_else ==
  /\ pc = "pat_else"
  /\ IF FallbackToBootloader(bootloader_probe, reset_target)
       THEN pc' = "reset" /\ r_ret' = "pat_fallback" /\ UNCHANGED error
       ELSE pc' = "done" /\ error' = ProbeFailed /\ UNCHANGED r_ret
  /\ UNCHANGED <<protocols, config, bootloader_seen, session, op, nops, retval, probe_args,
                 probe_locals, version, exc, conns, exit_to, write_args,
                 current_ieee, logs>>

\* A fallback that forgets the identity instead of declaring the bootloader.
probe_fallback_forgetting ==
  /\ pc = "pat_fallback"
  /\ app_type' = None
  /\ app_version' = bootloader_probe.version
  /\ app_baudrate' = bootloader_probe.baudrate
  /\ bootloader_baudrate' = bootloader_probe.baudrate
  /\ pc' = "pat_return"
  /\ UNCHANGED <<protocols, config, bootloader_seen, op, nops, error, retval, probe_args,
                 probe_locals, version, exc, r_ret, conns, exit_to, write_args,
                 current_ieee, logs>>

\* Lines 254-258: the bootloader is declared the running application.
probe_fallback ==
  /\ pc = "pat_fallback"
  /\ app_type' = GECKO_BOOTLOADER
  /\ app_version' = bootloader_probe.version
  /\ app_baudrate' = bootloader_probe.baudrate
  /\ bootloader_baudrate' = bootloader_probe.baudrate
  /\ pc' = "pat_return"
  /\ UNCHANGED <<protocols, config, bootloader_seen, op, nops, error, retval, probe_args,
                 probe_locals, version, exc, r_ret, conns, exit_to, write_args,
                 current_ieee, logs>>

\* Lines 262-268: probe_app_type returns to its caller.
probe_return ==
  /\ pc = "pat_return"
  /\ pc' = p_ret
  /\ UNCHANGED <<protocols, config, bootloader_seen, session, op, nops, error, retval, probe_args,
                 probe_locals, version, exc, r_ret, conns, exit_to, write_args,
                 current_ieee, logs>>

\* The caller runs probe_app_type(types, try_first).
Start_probe_app_type ==
  \E a \in ProbeArgs :
    /\ Begin("probe_app_type")
    /\ Call_probe_app_type(a[1], a[2], "done", <<>>)
    /\ No_write_args

(* ------------------------------------------------------------------ *)
(* enter_bootloader                                                   *)
(* ------------------------------------------------------------------ *)

\* A command the coroutine itself sends over its own connection.
Command(name, outcome) ==
  [name |-> name, outcome |-> outcome, ieee |-> None, burn_into_userdata |-> FALSE]

Start_enter_bootloader ==
  /\ Begin("enter_bootloader")
  /\ pc' = "eb_begin"
  /\ No_probe_app_type
  /\ No_write_args

\* if self.app_type is None
IdentityUnknown(t) == t = None

\* Lines 271-272.
enter_bootloader_begin ==
  /\ pc = "eb_begin"
  /\ IF IdentityUnknown(app_type)
       THEN Call_probe_app_type(TypesNone, <<>>, "eb_dispatch", probe_calls)
       ELSE pc' = "eb_dispatch" /\ UNCHANGED <<probe_args, probe_calls>>
  /\ UNCHANGED <<protocols, config, bootloader_seen, session, op, nops, error, retval, probe_locals, version,
                 exc, r_ret, conns, exit_to, write_args, current_ieee, attempts,
                 resets, commands, entry>>

\* Lines 274-290, 305-306: the dispatch on the detected type.
enter_bootloader_dispatch ==
  /\ pc = "eb_dispatch"
  /\ IF app_type = GECKO_BOOTLOADER
       THEN pc' = "eb_baud" /\ UNCHANGED <<conns, exit_to, exc, error>>
       ELSE IF app_type \in {CPC, SPINEL, ROUTER}
       THEN Connect(Connection(app_type, app_baudrate), "eb_command", "eb_baud")
       ELSE IF app_type = EZSP
       THEN Connect(Connection(EZSP, app_baudrate), "eb_ezsp", "eb_baud")
       ELSE pc' = "done" /\ error' = InvalidAppType /\ UNCHANGED <<conns, exit_to, exc>>
  /\ UNCHANGED <<protocols, config, bootloader_seen, session, op, nops, retval, probe_args, probe_locals,
                 version, r_ret, write_args, current_ieee, logs>>

\* async with asyncio_timeout(PROBE_TIMEOUT): await <protocol>.enter_bootloader()
enter_bootloader_command ==
  /\ pc = "eb_command"
  /\ exc' \in {None, TimeoutError, OtherError}
  /\ commands' = Append(commands, Command("enter_bootloader", exc'))
  /\ pc' = "aexit"
  /\ UNCHANGED <<protocols, config, bootloader_seen, session, op, nops, error, retval, probe_args,
                 probe_locals, version, r_ret, conns, exit_to, write_args,
                 current_ieee, attempts, resets, probe_calls, entry>>

\* What ezsp.launchStandaloneBootloader does: it times out, fails, or answers a status.
EzspLaunchOutcomes == {TimeoutError, OtherError, "SUCCESS", "ERR_FATAL"}

\* A launch whose status is never looked at.
OnEzspLaunchIgnoringStatus(o) ==
  IF o = OtherError THEN OtherError ELSE None

\* Lines 291-302: the exception that leaves the try statement, or None.
OnEzspLaunch(o) ==
  IF o = TimeoutError THEN None
  ELSE IF o = OtherError THEN OtherError
  ELSE IF o # "SUCCESS" THEN EzspRefused
  ELSE None

\* Lines 291-304.
ezsp_launch ==
  /\ pc = "eb_ezsp"
  /\ \E o \in EzspLaunchOutcomes :
       /\ exc' = OnEzspLaunch(o)
       /\ commands' = Append(commands, Command("launchStandaloneBootloader", o))
  /\ pc' = "aexit"
  /\ UNCHANGED <<protocols, config, bootloader_seen, session, op, nops, error, retval, probe_args,
                 probe_locals, version, r_ret, conns, exit_to, write_args,
                 current_ieee, attempts, resets, probe_calls, entry>>

\* A check that never asks for the bootloader probe.
NeverProbeBootloader(bb) == FALSE

\* if self.bootloader_baudrate is None
BootloaderBaudrateUnknown(bb) == bb = None

\* Lines 308-310.
enter_bootloader_baud ==
  /\ pc = "eb_baud"
  /\ IF BootloaderBaudrateUnknown(bootloader_baudrate)
       THEN Call_probe_app_type(<<GECKO_BOOTLOADER>>, <<>>, "done", probe_calls)
       ELSE pc' = "done" /\ UNCHANGED <<probe_args, probe_calls>>
  /\ UNCHANGED <<protocols, config, bootloader_seen, session, op, nops, error, retval, probe_locals, version,
                 exc, r_ret, conns, exit_to, write_args, current_ieee, attempts,
                 resets, commands, entry>>

(* ------------------------------------------------------------------ *)
(* flash_firmware                                                     *)
(* ------------------------------------------------------------------ *)

Start_flash_firmware ==
  /\ Begin("flash_firmware")
  /\ pc' = "ff_connect"
  /\ No_probe_app_type
  /\ No_write_args

\* async with self._connect_gecko_bootloader(self.bootloader_baudrate)
flash_connect ==
  /\ pc = "ff_connect"
  /\ Connect(Connection(GECKO_BOOTLOADER, bootloader_baudrate), "ff_upload", "done")
  /\ UNCHANGED <<protocols, config, bootloader_seen, session, op, nops, retval, probe_args, probe_locals,
                 version, r_ret, write_args, current_ieee, logs>>

\* Lines 324-328: probe, upload_firmware, run_firmware.
flash_upload ==
  /\ pc = "ff_upload"
  /\ exc' \in {None, TimeoutError, OtherError, NoFirmwareError}
  /\ commands' = Append(commands, Command("upload_firmware", exc'))
  /\ pc' = "aexit"
  /\ UNCHANGED <<protocols, config, bootloader_seen, session, op, nops, error, retval, probe_args,
                 probe_locals, version, r_ret, conns, exit_to, write_args,
                 current_ieee, attempts, resets, probe_calls, entry>>

(* ------------------------------------------------------------------ *)
(* dump_emberznet_config                                              *)
(* ------------------------------------------------------------------ *)

Start_dump_emberznet_config ==
  /\ Begin("dump_emberznet_config")
  /\ pc' = "dc_check"
  /\ No_probe_app_type
  /\ No_write_args

\* Lines 331-334.
dump_check ==
  /\ pc = "dc_check"
  /\ IF app_type # EZSP
       THEN pc' = "done" /\ error' = NotEmberZNet /\ UNCHANGED <<conns, exit_to, exc>>
       ELSE Connect(Connection(EZSP, app_baudrate), "dc_values", "done")
  /\ UNCHANGED <<protocols, config, bootloader_seen, session, op, nops, retval, probe_args, probe_locals,
                 version, r_ret, write_args, current_ieee, logs>>

\* Lines 335-339: the getConfigurationValue loop.
dump_values ==
  /\ pc = "dc_values"
  /\ exc' \in {None, TimeoutError, OtherError}
  /\ commands' = Append(commands, Command("getConfigurationValue", exc'))
  /\ pc' = "aexit"
  /\ UNCHANGED <<protocols, config, bootloader_seen, session, op, nops, error, retval, probe_args,
                 probe_locals, version, r_ret, conns, exit_to, write_args,
                 current_ieee, attempts, resets, probe_calls, entry>>

(* ------------------------------------------------------------------ *)
(* write_emberznet_eui64                                              *)
(* ------------------------------------------------------------------ *)

\* A start that goes to the type check without probing.
Start_write_emberznet_eui64_without_probe ==
  \E a \in IEEE, f \in BOOLEAN :
    /\ Begin("write_emberznet_eui64")
    /\ new_ieee' = a
    /\ force' = f
    /\ pc' = "we_check"
    /\ No_probe_app_type

\* Lines 344-346.
Start_write_emberznet_eui64 ==
  \E a \in IEEE, f \in BOOLEAN :
    /\ Begin("write_emberznet_eui64")
    /\ new_ieee' = a
    /\ force' = f
    /\ Call_probe_app_type(TypesNone, <<GECKO_BOOTLOADER, EZSP>>, "we_check", <<>>)

\* Lines 348-351.
write_check ==
  /\ pc = "we_check"
  /\ IF app_type # EZSP
       THEN pc' = "done" /\ error' = NotEmberZNet /\ UNCHANGED <<conns, exit_to, exc>>
       ELSE Connect(Connection(EZSP, app_baudrate), "we_get", "we_return")
  /\ UNCHANGED <<protocols, config, bootloader_seen, session, op, nops, retval, probe_args, probe_locals,
                 version, r_ret, write_args, current_ieee, logs>>

\* A comparison that never finds the address in place.
NeverMatches(cur, new) == FALSE

\* if current_ieee == new_ieee
AlreadyMatches(cur, new) == cur = new

\* Lines 352-357: the address is read; an equal address returns False from inside
\* the async with block.
write_get_eui64 ==
  /\ pc = "we_get"
  /\ \/ \E cur \in IEEE :
          /\ current_ieee' = cur
          /\ exc' = None
          /\ IF AlreadyMatches(cur, new_ieee)
               THEN retval' = "False" /\ exit_to' = "done" /\ pc' = "aexit"
               ELSE pc' = "we_write" /\ UNCHANGED <<retval, exit_to>>
     \/ /\ exc' \in {TimeoutError, OtherError}
        /\ pc' = "aexit"
        /\ UNCHANGED <<current_ieee, retval, exit_to>>
  /\ commands' = Append(commands, Command("getEui64", exc'))
  /\ UNCHANGED <<protocols, config, bootloader_seen, session, op, nops, error, probe_args, probe_locals,
                 version, r_ret, conns, write_args, attempts, resets, probe_calls,
                 entry>>

\* Line 359.
write_custom_eui64 ==
  /\ pc = "we_write"
  /\ exc' \in {None, TimeoutError, OtherError}
  /\ commands' = Append(commands, [name |-> "write_custom_eui64", outcome |-> exc',
                                    ieee |-> new_ieee,
                                    burn_into_userdata |-> force])
  /\ pc' = "aexit"
  /\ UNCHANGED <<protocols, config, bootloader_seen, session, op, nops, error, retval, probe_args,
                 probe_locals, version, r_ret, conns, exit_to, write_args,
                 current_ieee, attempts, resets, probe_calls, entry>>

\* Line 362.
write_return ==
  /\ pc = "we_return"
  /\ retval' = "True"
  /\ pc' = "done"
  /\ UNCHANGED <<protocols, config, bootloader_seen, session, op, nops, error, probe_args, probe_locals,
                 version, exc, r_ret, conns, exit_to, write_args, current_ieee,
                 logs>>

(* ------------------------------------------------------------------ *)
(* The session                                                        *)
(* ------------------------------------------------------------------ *)

Next ==
  \/ Start_probe_app_type
  \/ Start_enter_bootloader
  \/ Start_flash_firmware
  \/ Start_dump_emberznet_config
  \/ Start_write_emberznet_eui64
  \/ probe_app_type_begin
  \/ enter_bootloader_reset
  \/ enter_serial_bootloader
  \/ probe_loop
  \/ probe_connect
  \/ probe_exchange
  \/ gecko_run_firmware
  \/ context_exit
  \/ probe_result
  \/ probe_else
  \/ probe_fallback
  \/ probe_return
  \/ enter_bootloader_begin
  \/ enter_bootloader_dispatch
  \/ enter_bootloader_command
  \/ ezsp_launch
  \/ enter_bootloader_baud
  \/ flash_connect
  \/ flash_upload
  \/ dump_check
  \/ dump_values
  \/ write_check
  \/ write_get_eui64
  \/ write_custom_eui64
  \/ write_return

Spec == Init /\ [][Next]_vars

(* ------------------------------------------------------------------ *)
(* StateMachine                                                       *)
(* ------------------------------------------------------------------ *)

\* The state setter: the state is assigned and every waiter of it is woken.
\* Gives the new <<state, waiters, tasks>>.
set_state(s, w, ts) ==
  <<s,
    [w EXCEPT ![s] = {}],
    [t \in Tasks |-> IF t \in w[s] THEN [ts[t] EXCEPT !.woken = TRUE] ELSE ts[t]]>>

\* A wait that looks at the state first and registers afterwards.
check_then_register == <<"check", "register">>

\* wait_for_state: the waiter is registered, then the state is looked at.
wait_for_state_order == <<"register", "check">>

\* await self._state_machine.wait_for_state(target), the caller continuing at ret.
Call_wait_for_state(task, target, ret) ==
  [task EXCEPT !.pc = "wait_1", !.target = target, !.ret = ret, !.woken = FALSE]

\* One of the two steps of wait_for_state before it suspends.  Registering adds
\* the task to the waiters of its target; looking at the state returns at once when
\* the state is the target (or the task has been woken by a setter already).
wait_step(t, what, next) ==
  IF what = "register"
  THEN /\ waiters' = [waiters EXCEPT ![tasks[t].target] = @ \cup {t}]
       /\ tasks' = [tasks EXCEPT ![t].pc = next]
  ELSE IF state = tasks[t].target \/ tasks[t].woken
  THEN /\ waiters' = [s \in State |-> waiters[s] \ {t}]
       /\ tasks' = [tasks EXCEPT ![t].pc = tasks[t].ret, ![t].woken = FALSE,
                                 ![t].target = None, ![t].ret = None]
  ELSE /\ waiters' = waiters
       /\ tasks' = [tasks EXCEPT ![t].pc = next]

wait_first ==
  \E t \in Tasks :
    /\ tasks[t].pc = "wait_1"
    /\ wait_step(t, wait_for_state_order[1], "wait_2")
    /\ UNCHANGED <<flasher, cpc, state, buffer, router_version, received, data>>

wait_second ==
  \E t \in Tasks :
    /\ tasks[t].pc = "wait_2"
    /\ wait_step(t, wait_for_state_order[2], "suspended")
    /\ UNCHANGED <<flasher, cpc, state, buffer, router_version, received, data>>

\* The suspended waiter was woken by a setter: wait_for_state returns.
wait_return ==
  \E t \in Tasks :
    /\ tasks[t].pc = "suspended"
    /\ tasks[t].woken
    /\ waiters' = [s \in State |-> waiters[s] \ {t}]
    /\ tasks' = [tasks EXCEPT ![t].pc = tasks[t].ret, ![t].woken = FALSE,
                              ![t].target = None, ![t].ret = None]
    /\ UNCHANGED <<flasher, cpc, state, buffer, router_version, received, data>>

(* ------------------------------------------------------------------ *)
(* RouterProtocol                                                     *)
(* ------------------------------------------------------------------ *)

\* Number of data_received calls one RouterProtocol object gets.
MaxChunks == 3

\* The task that holds the connection.
RouterTasks == {"t1"}

\* The markers data_received looks for.
PROMPT == <<"\n", ">">>
BOOTLOADER_BANNER == <<"G", "e", "c", "k", "o", " ", "B", "o", "o", "t", "l", "o", "a", "d", "e", "r">>
INFO_PREFIX == <<"s", "t", "a", "c", "k", " ", "v", "e", "r", ".", " ", "[">>
INFO_SUFFIX == <<"]", "\r", "\n">>

\* What the device sends, cut into the chunks the serial port delivers: the
\* prompt character, the line terminator, both in one chunk, the version line
\* without its terminator, the bootloader banner in two pieces.
Chunks ==
  {<<">">>,
   <<"\r", "\n">>,
   <<"\r", "\n", ">">>,
   <<"s", "t", "a", "c", "k", " ", "v", "e", "r", ".", " ", "[", "7", ".", "4", "]">>,
   <<"G", "e", "c", "k", "o", " ", "B", "o", "o", "t">>,
   <<"l", "o", "a", "d", "e", "r">>}

\* pat occurs in buf at position i.
MatchesAt(buf, i, pat) ==
  /\ i + Len(pat) - 1 <= Len(buf)
  /\ \A k \in 1..Len(pat) : buf[i + k - 1] = pat[k]

\* pat in buf
Contains(pat, buf) == \E i \in 1..Len(buf) : MatchesAt(buf, i, pat)

\* The matches <<start, end of the group>> of prefix (.*?) suffix in buf; the dot
\* matches every byte but the line feed.
RegexMatches(buf, suffix) ==
  UNION {{<<i, j>> : j \in {j \in (i + Len(INFO_PREFIX))..(Len(buf) + 1) :
                              /\ MatchesAt(buf, j, suffix)
                              /\ \A k \in (i + Len(INFO_PREFIX))..(j - 1) :
                                   buf[k] # "\n"}} :
         i \in {i \in 1..Len(buf) : MatchesAt(buf, i, INFO_PREFIX)}}

\* regex.search: the leftmost match, its lazy group as short as can be; the group's
\* bytes, or None.
RegexSearch(buf, suffix) ==
  LET ms == RegexMatches(buf, suffix)
  IN IF ms = {} THEN None
     ELSE LET m == CHOOSE m \in ms :
                     \A n \in ms : m[1] < n[1] \/ (m[1] = n[1] /\ m[2] <= n[2])
          IN SubSeq(buf, m[1] + Len(INFO_PREFIX), m[2] - 1)

\* A version pattern that ends at the closing bracket.
search_without_line_end(buf) == RegexSearch(buf, <<"]">>)

\* ROUTER_INFO_REGEX.search(self._buffer), group "version"
ROUTER_INFO_REGEX_search(buf) == RegexSearch(buf, INFO_SUFFIX)

\* Where one branch of the parsing loop leaves the protocol, and whether it
\* returned from data_received.
Parsing(st, buf, ver, returns) ==
  [state |-> st, buffer |-> buf, version |-> ver, returns |-> returns]

\* Lines 71-76.
in_startup(st, buf, ver) ==
  IF ~Contains(PROMPT, buf)
  THEN Parsing(st, buf, ver, TRUE)
  ELSE Parsing(READY, <<>>, ver, FALSE)

\* An INFO branch that goes to READY without storing the version.
in_info_forgetting(st, buf, ver) ==
  IF ROUTER_INFO_REGEX_search(buf) = None
  THEN Parsing(st, buf, ver, TRUE)
  ELSE Parsing(READY, <<>>, ver, FALSE)

\* Lines 78-88.
in_info(st, buf, ver) ==
  LET match == ROUTER_INFO_REGEX_search(buf)
  IN IF match = None
     THEN Parsing(st, buf, ver, TRUE)
     ELSE Parsing(READY, <<>>, match, FALSE)

\* Lines 90-97.
in_bootwait(st, buf, ver) ==
  IF ~Contains(BOOTLOADER_BANNER, buf)
  THEN Parsing(st, buf, ver, TRUE)
  ELSE Parsing(READY, <<>>, ver, FALSE)

\* A READY branch that returns and leaves the bytes in the buffer.
in_ready_returning(st, buf, ver) == Parsing(st, buf, ver, TRUE)

\* Lines 99-100.
in_ready(st, buf, ver) == Parsing(st, <<>>, ver, FALSE)

\* Lines 69-100: while self._buffer, the if of STARTUP, then the if/elif chain.
RECURSIVE data_received_loop(_, _, _)
data_received_loop(st, buf, ver) ==
  IF buf = <<>>
  THEN Parsing(st, buf, ver, TRUE)
  ELSE LET a == IF st = STARTUP
                THEN in_startup(st, buf, ver)
                ELSE Parsing(st, buf, ver, FALSE)
       IN IF a.returns
          THEN a
          ELSE LET b == IF a.state = INFO
                        THEN in_info(a.state, a.buffer, a.version)
                        ELSE IF a.state = BOOTWAIT
                        THEN in_bootwait(a.state, a.buffer, a.version)
                        ELSE IF a.state = READY
                        THEN in_ready(a.state, a.buffer, a.version)
                        ELSE a
               IN IF b.returns
                  THEN b
                  ELSE data_received_loop(b.state, b.buffer, b.version)

\* data_received(data): the bytes are appended to the buffer (line 67) and the
\* buffer is parsed; an assignment of READY goes through the state setter.
data_received ==
  /\ received < MaxChunks
  /\ received' = received + 1
  /\ \E d \in Chunks :
       LET r == data_received_loop(state, buffer \o d, router_version)
       IN /\ data' = d
          /\ buffer' = r.buffer
          /\ router_version' = r.version
          /\ IF r.state # state
               THEN LET set == set_state(r.state, waiters, tasks)
                    IN state' = set[1] /\ waiters' = set[2] /\ tasks' = set[3]
               ELSE UNCHANGED <<state, waiters, tasks>>
  /\ UNCHANGED <<flasher, cpc>>

\* The caller awaits router.probe() or router.enter_bootloader().
Start_router(t, name) ==
  /\ tasks[t].pc = "idle"
  /\ tasks' = [tasks EXCEPT ![t] = [Idle EXCEPT !.op = name, !.pc = "activate_prompt"]]
  /\ data' = <<>>
  /\ UNCHANGED <<flasher, cpc, state, waiters, buffer, router_version, received>>

Start_probe == \E t \in RouterTasks : Start_router(t, "probe")

Start_router_enter_bootloader == \E t \in RouterTasks : Start_router(t, "enter_bootloader")

\* Line 56: activate_prompt acts in STARTUP only.
activate_prompt ==
  \E t \in RouterTasks :
    /\ tasks[t].pc = "activate_prompt"
    /\ tasks' = [tasks EXCEPT ![t].pc = IF state = STARTUP THEN "sleep" ELSE "command"]
    /\ data' = <<>>
    /\ UNCHANGED <<flasher, cpc, state, waiters, buffer, router_version, received>>

\* Lines 57-59: the sleep is over, the line terminator is sent, the wait begins.
send_enter ==
  \E t \in RouterTasks :
    /\ tasks[t].pc = "sleep"
    /\ tasks' = [tasks EXCEPT ![t] = Call_wait_for_state(tasks[t], READY, "command")]
    /\ data' = <<>>
    /\ UNCHANGED <<flasher, cpc, state, waiters, buffer, router_version, received>>

\* The state an operation sets before it sends its command.
CommandState(o) == IF o = "probe" THEN INFO ELSE BOOTWAIT

\* Lines 46-49 and 104-107: the state is set, the command is sent, the wait begins.
send_command ==
  \E t \in RouterTasks :
    /\ tasks[t].pc = "command"
    /\ LET set == set_state(CommandState(tasks[t].op), waiters, tasks)
       IN /\ state' = set[1]
          /\ waiters' = set[2]
          /\ tasks' = [set[3] EXCEPT ![t] = Call_wait_for_state(set[3][t], READY, "finish")]
    /\ data' = <<>>
    /\ UNCHANGED <<flasher, cpc, buffer, router_version, received>>

AssertionError == "AssertionError"

\* Lines 51-52: assert self._version is not None; return Version(self._version).
\* enter_bootloader returns nothing.
router_finish ==
  \E t \in RouterTasks :
    /\ tasks[t].pc = "finish"
    /\ tasks' = [tasks EXCEPT ![t].pc = "done",
                              ![t].error = IF tasks[t].op = "probe" /\ router_version = NoBytes
                                           THEN AssertionError ELSE None,
                              ![t].result = IF tasks[t].op = "probe"
                                            THEN router_version ELSE NoBytes]
    /\ data' = <<>>
    /\ UNCHANGED <<flasher, cpc, state, waiters, buffer, router_version, received>>

\* The caller has the result or the exception; the task can run the next operation.
returned ==
  \E t \in Tasks :
    /\ tasks[t].pc = "done"
    /\ tasks' = [tasks EXCEPT ![t] = Idle]
    /\ data' = <<>>
    /\ UNCHANGED <<flasher, cpc, state, waiters, buffer, router_version, received>>

\* The caller's async with block ends (flasher.py lines 159-160 and 286-288): the
\* connection is closed, and the next _connect_router makes a new RouterProtocol.
connection_closed ==
  \E t \in RouterTasks :
    /\ tasks[t].pc = "done"
    /\ state' = STARTUP
    /\ waiters' = [s \in State |-> {}]
    /\ buffer' = <<>>
    /\ router_version' = NoBytes
    /\ tasks' = [tasks EXCEPT ![t] = Idle]
    /\ received' = 0
    /\ data' = <<>>
    /\ UNCHANGED <<flasher, cpc>>

\* Only the caller's deadline: probe itself sets none.
OnlyCallerDeadline(o) == o = "enter_bootloader"

\* async with asyncio_timeout(PROBE_TIMEOUT): in probe (router.py line 40), and
\* around router.enter_bootloader() in its caller (flasher.py line 287).
UnderDeadline(o) == o \in {"probe", "enter_bootloader"}

\* The deadline passes while the task is suspended (in the sleep or in a wait): the
\* wait is cancelled, its waiter is removed, TimeoutError is raised to the caller.
deadline ==
  \E t \in RouterTasks :
    /\ UnderDeadline(tasks[t].op)
    /\ tasks[t].pc \in {"sleep", "suspended"}
    /\ waiters' = [s \in State |-> waiters[s] \ {t}]
    /\ tasks' = [tasks EXCEPT ![t] = [Idle EXCEPT !.op = tasks[t].op, !.pc = "done",
                                                  !.error = TimeoutError]]
    /\ data' = <<>>
    /\ UNCHANGED <<flasher, cpc, state, buffer, router_version, received>>

\* A session on which the Flasher does nothing.
Flasher_idle ==
  /\ Flasher_init
  /\ probe_methods = DefaultProbeMethods
  /\ reset_target = None

RouterInit ==
  /\ Flasher_idle
  /\ RouterProtocol_init
  /\ CPCProtocol_init

\* The steps of the coroutine.
RouterTaskNext ==
  \/ activate_prompt
  \/ send_enter
  \/ wait_first
  \/ wait_second
  \/ wait_return
  \/ send_command
  \/ router_finish
  \/ connection_closed

RouterNext ==
  \/ Start_probe
  \/ Start_router_enter_bootloader
  \/ activate_prompt
  \/ send_enter
  \/ wait_first
  \/ wait_second
  \/ wait_return
  \/ send_command
  \/ router_finish
  \/ connection_closed
  \/ deadline
  \/ data_received

RouterSpec == RouterInit /\ [][RouterNext]_vars

\* The event loop runs a coroutine that can run, and a deadline that is due passes.
RouterLive ==
  /\ RouterSpec
  /\ WF_vars(RouterTaskNext)
  /\ WF_vars(deadline)

(* ------------------------------------------------------------------ *)
(* StateMachine on its own: two waiters and a setter                  *)
(* ------------------------------------------------------------------ *)

\* A coroutine awaits wait_for_state(target).
Start_wait_for_state ==
  \E t \in Tasks, target \in State :
    /\ tasks[t].pc = "idle"
    /\ tasks' = [tasks EXCEPT ![t] =
                  Call_wait_for_state([Idle EXCEPT !.op = "wait_for_state"],
                                      target, "done")]
    /\ UNCHANGED <<flasher, cpc, state, waiters, buffer, router_version, received, data>>

\* Some code assigns the state, at any moment.
assign_state ==
  \E s \in State :
    LET set == set_state(s, waiters, tasks)
    IN /\ state' = set[1]
       /\ waiters' = set[2]
       /\ tasks' = set[3]
       /\ UNCHANGED <<flasher, cpc, buffer, router_version, received, data>>

StateMachineNext ==
  \/ Start_wait_for_state
  \/ wait_first
  \/ wait_second
  \/ wait_return
  \/ returned
  \/ assign_state

StateMachineSpec == RouterInit /\ [][StateMachineNext]_vars

(* ------------------------------------------------------------------ *)
(* CPCProtocol: the deserialiser on the bytes of the test vectors     *)
(* ------------------------------------------------------------------ *)

\* Number of items (frames, garbage) the peer sends in one run.
MaxFrames == 2

\* EndpointId.SYSTEM, UnnumberedFrameCommandId.PROP_VALUE_IS and the two
\* PropertyId values, as the serialised test vectors carry them.
SYSTEM == 0
PROP_VALUE_IS == 6
SECONDARY_CPC_VERSION == 3
SECONDARY_APP_VERSION == 4

CPCTransportFrame(endpoint, control, command_id, command_seq, property_id, value) ==
  [endpoint |-> endpoint, control |-> control, command_id |-> command_id,
   command_seq |-> command_seq, property_id |-> property_id, value |-> value]

FRAME1 ==
  CPCTransportFrame(SYSTEM, 196, PROP_VALUE_IS, 0, SECONDARY_CPC_VERSION,
                    <<4, 0, 0, 0, 4, 0, 0, 0, 3, 0, 0, 0>>)
FRAME2 ==
  CPCTransportFrame(SYSTEM, 196, PROP_VALUE_IS, 1, SECONDARY_APP_VERSION,
                    <<52, 46, 52, 46, 51, 45, 48, 51, 54, 56, 54, 52, 50, 99, 0>>)

\* FRAME1.serialize() and FRAME2.serialize(), the bytes the test expects.
FRAME1_serialized ==
  <<20, 0, 22, 0, 196, 87, 229, 6, 0, 16, 0, 3, 0, 0, 0, 4,
    0, 0, 0, 4, 0, 0, 0, 3, 0, 0, 0, 125, 62>>
FRAME2_serialized ==
  <<20, 0, 25, 0, 196, 102, 201, 6, 1, 19, 0, 4, 0, 0, 0, 52,
    46, 52, 46, 51, 45, 48, 51, 54, 56, 54, 52, 50, 99, 0, 11, 186>>

\* b"aaaaaaaaaaaaaaaaaaaaa\r\n"
GARBAGE == [i \in 1..23 |-> IF i <= 21 THEN 97 ELSE IF i = 22 THEN 13 ELSE 10]

\* FRAME2 with one byte of its value changed on the way.
DAMAGED == [FRAME2_serialized EXCEPT ![20] = (@ + 1) % 256]

\* What the peer may send, and the bytes of each item.
Items == {"FRAME1", "FRAME2", "GARBAGE", "DAMAGED"}
Serialized(item) ==
  CASE item = "FRAME1" -> FRAME1_serialized
    [] item = "FRAME2" -> FRAME2_serialized
    [] item = "GARBAGE" -> GARBAGE
    [] item = "DAMAGED" -> DAMAGED

\* The frame an item is the serialisation of.
Frame(item) == IF item = "FRAME1" THEN FRAME1 ELSE FRAME2

RECURSIVE Concatenated(_)
Concatenated(items) ==
  IF items = <<>> THEN <<>> ELSE Serialized(Head(items)) \o Concatenated(Tail(items))

\* The three ways the test cuts the bytes into chunks.
Chunkings == {"one at a time", "byte at a time", "concatenated"}
Chunked(items, how) ==
  CASE how = "one at a time" -> [i \in 1..Len(items) |-> Serialized(items[i])]
    [] how = "byte at a time" ->
         [i \in 1..Len(Concatenated(items)) |-> <<Concatenated(items)[i]>>]
    [] how = "concatenated" -> IF items = <<>> THEN <<>> ELSE <<Concatenated(items)>>

\* Bitwise exclusive or of two naturals.
RECURSIVE Xor(_, _)
Xor(a, b) ==
  IF a = 0 THEN b
  ELSE IF b = 0 THEN a
  ELSE ((a + b) % 2) + 2 * Xor(a \div 2, b \div 2)

\* CRC-16 (polynomial 0x1021, initial value 0, 16 bits wide): n shifts of the
\* register.
RECURSIVE crc_shift(_, _)
crc_shift(crc, n) ==
  IF n = 0 THEN crc
  ELSE IF crc >= 32768 THEN crc_shift(Xor((crc * 2) % 65536, 4129), n - 1)
  ELSE crc_shift(crc * 2, n - 1)

\* The checksum register after each value of its high byte has been shifted out.
CRC_TABLE == [b \in 0..255 |-> crc_shift(b * 256, 8)]

\* The checksum of the first n bytes, a byte at a time.
RECURSIVE crc16(_, _)
crc16(bytes, n) ==
  IF n = 0 THEN 0
  ELSE LET crc == crc16(bytes, n - 1)
       IN Xor((crc % 256) * 256, CRC_TABLE[Xor(crc \div 256, bytes[n])])

\* Little-endian unsigned integer.
RECURSIVE from_bytes(_)
from_bytes(bytes) ==
  IF bytes = <<>> THEN 0 ELSE Head(bytes) + 256 * from_bytes(Tail(bytes))

\* The header: flag, endpoint, length (2), control, header checksum (2).
HEADER_SIZE == 7
CHECKSUM_SIZE == 2

\* The length field counts the payload and its checksum.
FrameSize(buf) == HEADER_SIZE + from_bytes(SubSeq(buf, 3, 4))

header_checksum_ok(buf) ==
  crc16(buf, HEADER_SIZE - CHECKSUM_SIZE) = from_bytes(SubSeq(buf, 6, 7))

payload_checksum_ok(frame) ==
  crc16(SubSeq(frame, HEADER_SIZE + 1, Len(frame) - CHECKSUM_SIZE),
        Len(frame) - CHECKSUM_SIZE - HEADER_SIZE)
    = from_bytes(SubSeq(frame, Len(frame) - CHECKSUM_SIZE + 1, Len(frame)))

\* The frame that the bytes of one whole, checked frame stand for.
CPCTransportFrame_deserialize(frame) ==
  CPCTransportFrame(frame[2], frame[5], frame[8], frame[9],
                    from_bytes(SubSeq(frame, 12, 15)),
                    SubSeq(frame, 16, Len(frame) - CHECKSUM_SIZE))

\* A failed checksum that drops the first byte and leaves the rest.
drop_first_byte(buf) == Tail(buf)

\* A failed checksum flushes everything held.
after_checksum_failure(buf) == <<>>

\* Parsing that stops after the first frame of a call.
stop_after_frame(rest) == FALSE

\* Parsing repeats against the remaining bytes.
parse_again(rest) == rest # <<>>

Deserialized(buf, delivered, failed) ==
  [buffer |-> buf, delivered |-> delivered, failed |-> failed]

\* CPCProtocol.data_received after the chunk is appended: frames are taken from
\* the front of the buffer until bytes are missing or a checksum fails.
RECURSIVE cpc_data_received_loop(_, _)
cpc_data_received_loop(buf, delivered) ==
  IF Len(buf) < HEADER_SIZE THEN Deserialized(buf, delivered, FALSE)
  ELSE IF ~header_checksum_ok(buf)
  THEN Deserialized(after_checksum_failure(buf), delivered, TRUE)
  ELSE IF Len(buf) < FrameSize(buf) THEN Deserialized(buf, delivered, FALSE)
  ELSE LET first == SubSeq(buf, 1, FrameSize(buf))
           new_buffer == SubSeq(buf, FrameSize(buf) + 1, Len(buf))
       IN IF ~payload_checksum_ok(first)
          THEN Deserialized(after_checksum_failure(buf), delivered, TRUE)
          ELSE IF parse_again(new_buffer)
          THEN cpc_data_received_loop(
                 new_buffer, Append(delivered, CPCTransportFrame_deserialize(first)))
          ELSE Deserialized(
                 new_buffer, Append(delivered, CPCTransportFrame_deserialize(first)), FALSE)

\* cpc.data_received(chunk), for the next chunk of the run.
cpc_data_received ==
  /\ wire # <<>>
  /\ LET r == cpc_data_received_loop(cpc_buffer \o Head(wire), <<>>)
     IN /\ cpc_buffer' = r.buffer
        /\ frame_received' = frame_received \o r.delivered
        /\ checksum_failed' = r.failed
  /\ wire' = Tail(wire)
  /\ UNCHANGED <<flasher, router, frames, chunking>>

\* The sequences of at most n items.
RECURSIVE ItemSeqs(_)
ItemSeqs(n) ==
  IF n = 0 THEN {<<>>}
  ELSE ItemSeqs(n - 1) \cup
       {Append(s, i) : s \in {s \in ItemSeqs(n - 1) : Len(s) = n - 1}, i \in Items}

\* cpc = CPCProtocol(), and the chunks one run hands to it.
CpcInit ==
  /\ Flasher_idle
  /\ RouterProtocol_init
  /\ frames \in ItemSeqs(MaxFrames)
  /\ chunking \in Chunkings
  /\ wire = Chunked(frames, chunking)
  /\ cpc_buffer = <<>>
  /\ frame_received = <<>>
  /\ checksum_failed = FALSE

CpcNext == cpc_data_received

CpcSpec == CpcInit /\ [][CpcNext]_vars

(* ------------------------------------------------------------------ *)
(* Properties                                                         *)
(* ------------------------------------------------------------------ *)

\* A probe_app_type call has computed its candidates (it is past lines 183-202).
Probing == probe_calls # <<>> /\ pc # "pat_begin"

\* The for loop of the running call has run out of candidates.
Exhausted == Probing /\ idx > Len(Candidates)

\* C1: in probe_app_type the first probe whose result has continue_probing = false
\* wins: the session's app_type, app_version and app_baudrate are that candidate's
\* type and the result's version and baud rate, and it is the last probe attempted
\* by the call (every probe before it timed out or asked to continue).
C1_FirstFinalResultWins ==
  \A i \in 1..Len(attempts) :
    /\ i < Len(attempts) => attempts[i].outcome \in {"timeout", "continue"}
    /\ attempts[i].outcome = "final" =>
         /\ app_type = attempts[i].method
         /\ app_version = attempts[i].version
         /\ app_baudrate = attempts[i].result_baudrate
         /\ app_baudrate = attempts[i].baudrate
         /\ pc \notin {"pat_loop", "pat_connect", "pat_exchange", "pat_run_firmware",
                        "pat_result", "pat_else", "pat_fallback"}

\* C1 witness: a bootloader probe timed out, a later EZSP probe won, candidates
\* remain untried and the call has returned.
C1_Witness ==
  /\ op = "probe_app_type" /\ pc = "done" /\ error = None
  /\ Len(attempts) >= 2
  /\ attempts[1].method = GECKO_BOOTLOADER /\ attempts[1].outcome = "timeout"
  /\ Last(attempts).method = EZSP /\ Last(attempts).outcome = "final"
  /\ app_type = EZSP
  /\ idx < Len(Candidates)

\* C2: a probe that raises TimeoutError is skipped: the step that handles it changes
\* no session field, raises nothing and moves the loop to the next pair; a probe
\* that raises anything else ends the coroutine with that error, so that no later
\* candidate is attempted.
C2_TimeoutSkipsOtherErrorStops ==
  [][ (pc = "pat_result" /\ exc # None) =>
        IF exc = TimeoutError
        THEN /\ session' = session
             /\ error' = None
             /\ pc' = "pat_loop"
             /\ idx' = idx + 1
             /\ Last(attempts').outcome = "timeout"
        ELSE IF exc = NoFirmwareError /\ version # Unbound
        THEN Last(attempts').outcome = "final"
        ELSE /\ pc' = "done"
             /\ error' # None
             /\ error' \in {exc, UnboundLocalError}
             /\ session' = session
             /\ Len(attempts') = Len(attempts) ]_vars

\* C2 witness: the first probe timed out, the next pair was tried and failed with
\* another error, which ended the coroutine.
C2_Witness ==
  /\ pc = "done" /\ error = OtherError
  /\ Len(attempts) = 2
  /\ attempts[1].outcome = "timeout"
  /\ attempts[2].outcome = "error"
  /\ idx = 2

C4_AppTypeImmutable == [][app_type # None => app_type' = app_type]_vars

\* C4, amended: app_type is assigned by probe_app_type alone -- by the step that
\* takes a winning probe result (to that candidate's type) or by the bootloader
\* fallback (to the bootloader) -- and never goes back to unknown; no step of
\* enter_bootloader, flash_firmware, dump_emberznet_config or
\* write_emberznet_eui64 outside the probe_app_type they call changes it.  A later
\* probe_app_type does replace a detected type by the one it detects.
C4_AppTypeSetOnlyByProbe ==
  [][ app_type' # app_type =>
        /\ pc \in {"pat_result", "pat_fallback"}
        /\ app_type' \in ApplicationType
        /\ pc = "pat_result" =>
             /\ app_type' = Last(attempts').method
             /\ Last(attempts').outcome = "final"
        /\ pc = "pat_fallback" => app_type' = GECKO_BOOTLOADER ]_vars

\* C4 witness: within one coroutine a detected type was replaced by another one.
C4_Witness ==
  /\ entry.app_type # None
  /\ app_type # None
  /\ app_type # entry.app_type

\* C5: enter_bootloader calls probe_app_type() first exactly when app_type is
\* unknown, and after the entry calls probe_app_type(types=[bootloader]) exactly
\* when bootloader_baudrate is unset; so whenever it returns normally,
\* bootloader_baudrate is the baud rate the bootloader last answered a probe at,
\* and that is the rate flash_firmware connects at.
C5_EnterBootloaderProbes ==
  /\ [][ pc = "eb_begin" =>
           ((app_type = None) <=>
              (pc' = "pat_begin" /\ arg_types' = TypesNone /\ arg_try_first' = <<>>
               /\ p_ret' = "eb_dispatch")) ]_vars
  /\ [][ pc = "eb_baud" =>
           ((bootloader_baudrate = None) <=>
              (pc' = "pat_begin" /\ arg_types' = <<GECKO_BOOTLOADER>>)) ]_vars
  /\ [](pc = "eb_dispatch" => app_type # None)
  /\ []((op = "enter_bootloader" /\ pc = "done" /\ error = None) =>
          (bootloader_baudrate # None /\ bootloader_baudrate = bootloader_seen))
  /\ [](pc = "ff_upload" =>
          conns = <<[proto |-> "GeckoBootloaderProtocol", baud |-> bootloader_baudrate]>>)

\* C5 witness: enter_bootloader started with an unknown identity, probed, entered
\* the bootloader, probed the bootloader alone and returned.
C5_Witness ==
  /\ op = "enter_bootloader" /\ pc = "done" /\ error = None
  /\ entry.app_type = None
  /\ Len(probe_calls) = 2
  /\ probe_calls[2].types = <<GECKO_BOOTLOADER>>
  /\ commands # <<>>
  /\ bootloader_baudrate # None

\* The launchStandaloneBootloader commands the coroutine has sent.
Launches == SelectSeq(commands, LAMBDA c : c.name = "launchStandaloneBootloader")

\* C6: for the EZSP type, a launch command that times out raises nothing and
\* enter_bootloader goes on to the bootloader baud rate check; a launch that
\* answers a status other than SUCCESS makes enter_bootloader fail, and no
\* bootloader probe follows.
C6_EzspLaunchTimeoutTolerated ==
  /\ [][ pc = "eb_ezsp" =>
           LET o == Last(commands').outcome
           IN /\ o = TimeoutError => exc' = None
              /\ o \notin {TimeoutError, OtherError, "SUCCESS"} => exc' = EzspRefused ]_vars
  /\ [][ (pc = "aexit" /\ exit_to = "eb_baud") =>
           IF exc = None
           THEN pc' = "eb_baud" /\ error' = None
           ELSE pc' = "done" /\ error' = exc ]_vars
  /\ []((op = "enter_bootloader" /\ error = EzspRefused) =>
          /\ pc = "done"
          /\ \A i \in 1..Len(probe_calls) :
               probe_calls[i].types # <<GECKO_BOOTLOADER>>)
  /\ []((op = "enter_bootloader" /\ pc = "done" /\ Launches # <<>>
          /\ Launches[1].outcome = TimeoutError) => error # TimeoutError)

\* C6 witness: the launch command timed out and enter_bootloader went on to probe
\* the bootloader and returned.
C6_Witness ==
  /\ op = "enter_bootloader" /\ pc = "done" /\ error = None
  /\ Launches # <<>>
  /\ Launches[1].outcome = TimeoutError
  /\ Last(probe_calls).types = <<GECKO_BOOTLOADER>>

\* The positions at which no async with block is open.
OutsideConnection ==
  {"done", "pat_begin", "reset", "pat_loop", "pat_connect", "pat_result", "pat_else",
   "pat_fallback", "pat_return", "eb_begin", "eb_dispatch", "eb_baud", "ff_connect",
   "dc_check", "we_check", "we_return"}

\* C7: at most one serial connection is open at any time; none is open between
\* two probes or command exchanges, whatever way the previous one ended; and
\* the connection an exchange runs on is the one opened for it.
C7_ConnectionsAreScoped ==
  /\ Len(conns) <= 1
  /\ pc \in OutsideConnection => conns = <<>>
  /\ pc \in {"pat_exchange", "pat_run_firmware"} =>
       conns = <<Connection(Last(attempts).method, Last(attempts).baudrate)>>
  /\ pc \in {"eb_command", "eb_ezsp"} => conns = <<Connection(app_type, app_baudrate)>>
  /\ pc \in {"dc_values", "we_get", "we_write"} =>
       conns = <<Connection(EZSP, app_baudrate)>>
  /\ pc = "serial_reset" => Len(conns) = 1 /\ conns[1].proto = "SerialProtocol"

\* C7 witness: an EZSP probe ended by an exception and the next candidate's
\* connection is the only one open.
C7_Witness ==
  /\ pc = "pat_exchange"
  /\ Len(attempts) >= 2
  /\ attempts[Len(attempts) - 1].method = EZSP
  /\ attempts[Len(attempts) - 1].outcome = "timeout"
  /\ Len(conns) = 1
  /\ conns[1].proto # "EZSP"

\* The write_custom_eui64 calls the coroutine has made.
Writes == SelectSeq(commands, LAMBDA c : c.name = "write_custom_eui64")

\* C8: write_emberznet_eui64 on a device detected as EZSP: when the requested
\* address is the device's current one it makes no write call and returns False;
\* when it differs it makes exactly one write call, with the new address and the
\* caller's force flag, and returns True.
C8_WriteOnlyWhenDifferent ==
  op = "write_emberznet_eui64" =>
    /\ Len(Writes) <= 1
    /\ commands # <<>> => app_type = EZSP
    /\ current_ieee = new_ieee => Writes = <<>>
    /\ (pc = "done" /\ error = None) =>
         /\ current_ieee \in IEEE
         /\ IF current_ieee = new_ieee
            THEN retval = "False" /\ Writes = <<>>
            ELSE /\ retval = "True"
                 /\ Writes = <<[name |-> "write_custom_eui64", outcome |-> None,
                                ieee |-> new_ieee, burn_into_userdata |-> force]>>

\* C8 witness: the address differed, one forced write was made, True was returned.
C8_Witness ==
  /\ op = "write_emberznet_eui64" /\ pc = "done" /\ error = None
  /\ retval = "True"
  /\ force
  /\ current_ieee # new_ieee
  /\ Len(Writes) = 1

\* An identity-dependent coroutine that ended on the type check sent nothing and
\* opened no connection of its own.
FailsFastOnWrongType ==
  /\ (op \in {"dump_emberznet_config", "write_emberznet_eui64"}
      /\ error = NotEmberZNet) =>
       (pc = "done" /\ app_type # EZSP /\ commands = <<>> /\ conns = <<>>)
  /\ pc \in {"dc_values", "we_get", "we_write", "we_return"} => app_type = EZSP
  /\ (op \in {"dump_emberznet_config", "write_emberznet_eui64"}
      /\ pc = "done" /\ app_type # EZSP) => (error # None /\ commands = <<>>)

\* C9 as claimed: dump_emberznet_config and write_emberznet_eui64 both have called
\* probe_app_type when they check the type, and fail fast on a type other than EZSP.
C9_BothReprobeFirst ==
  /\ pc \in {"dc_check", "we_check"} => probe_calls # <<>>
  /\ FailsFastOnWrongType

\* C9, amended: write_emberznet_eui64 re-probes (bootloader and EZSP first) before
\* it checks the type; dump_emberznet_config does not probe, it checks the type the
\* session already holds; either fails on a type other than EZSP before it opens
\* its EZSP connection and before it sends any command.
C9_WriteReprobesDumpDoesNot ==
  /\ pc = "we_check" =>
       /\ Len(probe_calls) = 1
       /\ probe_calls[1].types = TypesNone
       /\ probe_calls[1].try_first = <<GECKO_BOOTLOADER, EZSP>>
       /\ app_type # None
       /\ attempts # <<>>
  /\ op = "dump_emberznet_config" => (probe_calls = <<>> /\ app_type = entry.app_type)
  /\ FailsFastOnWrongType

\* C9 witness: write_emberznet_eui64 probed, found another application and failed.
C9_Witness ==
  /\ op = "write_emberznet_eui64" /\ pc = "done" /\ error = NotEmberZNet
  /\ app_type \in ApplicationType \ {EZSP}
  /\ Last(attempts).outcome = "final"

\* The candidate list a probe_app_type call was given.
Given == IF arg_types = TypesNone THEN probe_methods ELSE arg_types

\* Where x stands in the sequence s.
PosIn(s, x) == CHOOSE i \in 1..Len(s) : s[i] = x

\* C10: the candidate types are those of the given list, the ones in try_first
\* before the others, each part in the order of the given list; and the probes are
\* attempted in that order of types, each type's baud rates in their configured
\* order -- all of them when every probe times out.
C10_CandidateOrder ==
  Probing =>
    /\ Len(types) = Len(Given)
    /\ \A k \in 1..Len(Given) : InSeq(Given[k], types)
    /\ \A i, j \in 1..Len(types) :
         i < j =>
           \/ InSeq(types[i], arg_try_first) /\ ~InSeq(types[j], arg_try_first)
           \/ /\ InSeq(types[i], arg_try_first) <=> InSeq(types[j], arg_try_first)
              /\ PosIn(Given, types[i]) < PosIn(Given, types[j])
    /\ \A i, j \in 1..Len(attempts) :
         i < j =>
           LET a == attempts[i]
               b == attempts[j]
           IN \/ PosIn(types, a.method) < PosIn(types, b.method)
              \/ /\ a.method = b.method
                 /\ PosIn(baudrates[a.method], a.baudrate)
                      < PosIn(baudrates[a.method], b.baudrate)
    /\ (pc = "pat_else" /\ bootloader_probe = NoProbe) =>
         /\ \A k \in 1..Len(Given) : \A n \in 1..Len(baudrates[Given[k]]) :
              \E i \in 1..Len(attempts) :
                /\ attempts[i].method = Given[k]
                /\ attempts[i].baudrate = baudrates[Given[k]][n]

\* C10 witness: types (SPINEL, EZSP, CPC) with try_first (CPC, SPINEL): every probe
\* timed out, in the order SPINEL, CPC at 460800, CPC at 115200, EZSP.
C10_Witness ==
  /\ pc = "pat_else"
  /\ arg_types = <<SPINEL, EZSP, CPC>>
  /\ arg_try_first = <<CPC, SPINEL>>
  /\ Len(attempts) = 4
  /\ attempts[1].method = SPINEL
  /\ attempts[2].method = CPC /\ attempts[2].baudrate = "460800"
  /\ attempts[3].method = CPC /\ attempts[3].baudrate = "115200"
  /\ attempts[4].method = EZSP

\* The bootloader probes of the running call that returned a result.
BootloaderAnswers ==
  {i \in 1..Len(attempts) : /\ attempts[i].method = GECKO_BOOTLOADER
                            /\ attempts[i].outcome \in {"continue", "final"}}

C17_BootloaderProbedOnce ==
  /\ [](\A i, j \in 1..Len(attempts) :
          (i < j /\ i \in BootloaderAnswers) => attempts[j].method # GECKO_BOOTLOADER)
  /\ [][ (/\ pc = "pat_loop"
          /\ idx <= Len(Candidates)
          /\ Candidates[idx][1] = GECKO_BOOTLOADER) =>
           IF BootloaderAnswers # {}
           THEN /\ pc' = "pat_loop"
                /\ idx' = idx + 1
                /\ attempts' = attempts
           ELSE /\ pc' = "pat_connect"
                /\ attempts' = Append(attempts,
                                      Attempt(GECKO_BOOTLOADER, Candidates[idx][2])) ]_vars

\* C17 witness: the bootloader answered at its first baud rate, its second baud
\* rate was passed over, and the next attempt is a CPC probe.
C17_Witness ==
  /\ pc = "pat_exchange"
  /\ Len(attempts) = 2
  /\ attempts[1].method = GECKO_BOOTLOADER
  /\ attempts[1].baudrate = baudrates[GECKO_BOOTLOADER][1]
  /\ attempts[1].outcome = "continue"
  /\ attempts[2].method = CPC
  /\ Len(baudrates[GECKO_BOOTLOADER]) = 2
  /\ idx = 3

\* C18: during probe_app_type the bootloader probe launches the application
\* (run_firmware) if and only if a reset target is configured and the candidate
\* types are not exactly [bootloader]; its result asks to continue exactly when the
\* application was launched; when no launch was requested, and when the launch
\* answered that no application is installed, the result is final and the
\* bootloader becomes the detected identity in that step.
C18_LaunchDecidesContinuation ==
  /\ [](Probing => (run_firmware <=> (reset_target # None
                                      /\ types # <<GECKO_BOOTLOADER>>)))
  /\ [][ (/\ pc = "pat_exchange"
          /\ Candidates[idx][1] = GECKO_BOOTLOADER
          /\ exc' = None) =>
           (pc' = "pat_run_firmware" <=>
              (reset_target # None /\ types # <<GECKO_BOOTLOADER>>)) ]_vars
  /\ [][ pc' = "pat_run_firmware" =>
           (pc = "pat_exchange" /\ Candidates[idx][1] = GECKO_BOOTLOADER) ]_vars
  /\ [](\A i \in 1..Len(attempts) :
          /\ attempts[i].launched =>
               (attempts[i].method = GECKO_BOOTLOADER /\ reset_target # None
                /\ types # <<GECKO_BOOTLOADER>>)
          /\ i \in BootloaderAnswers =>
               /\ attempts[i].outcome = "continue" <=> attempts[i].launched
               /\ attempts[i].outcome = "final" =>
                    (i = Len(attempts) /\ app_type = GECKO_BOOTLOADER
                     /\ app_version = attempts[i].version))
  /\ [][ (pc = "pat_result" /\ Candidates[idx][1] = GECKO_BOOTLOADER) =>
           /\ (exc = None /\ ~run_firmware) =>
                (Last(attempts').outcome = "final" /\ app_type' = GECKO_BOOTLOADER)
           /\ (exc = NoFirmwareError /\ version # Unbound) =>
                (Last(attempts').outcome = "final" /\ app_type' = GECKO_BOOTLOADER)
           /\ (exc = None /\ run_firmware) =>
                (Last(attempts').outcome = "continue" /\ app_type' = app_type) ]_vars

\* C18 witness: a launch was requested, the bootloader answered that no application
\* is installed, and the bootloader is the detected identity.
C18_Witness ==
  /\ pc = "pat_return"
  /\ run_firmware
  /\ Len(attempts) = 1
  /\ attempts[1].method = GECKO_BOOTLOADER
  /\ attempts[1].outcome = "final"
  /\ ~attempts[1].launched
  /\ app_type = GECKO_BOOTLOADER
  /\ idx < Len(Candidates)

\* C20: when probe_app_type fails with "Failed to probe running application type",
\* app_type, app_version, app_baudrate and bootloader_baudrate have the values they
\* had when the call was made: no bootloader probe of the call returned a result
\* and no probe won.
C20_ExhaustionLeavesSessionAlone ==
  error = ProbeFailed =>
    /\ pc = "done"
    /\ probe_calls # <<>>
    /\ session = Last(probe_calls).before
    /\ \A i \in 1..Len(attempts) : attempts[i].outcome = "timeout"

\* C20 witness: enter_bootloader detected EZSP with its first probe_app_type; its
\* bootloader-only probe_app_type then ran out of candidates and failed.
C20_Witness ==
  /\ op = "enter_bootloader" /\ pc = "done" /\ error = ProbeFailed
  /\ Len(probe_calls) = 2
  /\ entry.app_type = None
  /\ app_type = EZSP
  /\ bootloader_baudrate = None
  /\ Len(attempts) = 2

\* The pattern of the waiting state st occurs whole in buf.
Complete(st, buf) ==
  CASE st = STARTUP -> Contains(PROMPT, buf)
    [] st = INFO -> RegexMatches(buf, INFO_SUFFIX) # {}
    [] st = BOOTWAIT -> Contains(BOOTLOADER_BANNER, buf)
    [] OTHER -> FALSE

\* C12: the RouterProtocol state becomes READY only in a data_received call, and
\* only when the accumulated buffer (the bytes kept so far and the new chunk)
\* holds the whole pattern of the state it was waiting in: the prompt marker in
\* STARTUP, the "stack ver. [<version>]" line with its line terminator in INFO, the
\* bootloader banner in BOOTWAIT.  A data_received call in a waiting state whose
\* accumulated buffer does not hold that pattern leaves the state and the version
\* as they are and keeps all the bytes; one that completes it moves to READY.
C12_ReadyOnlyOnCompleteMatch ==
  /\ [][ (state' = READY /\ state # READY) =>
           /\ received' = received + 1
           /\ Complete(state, buffer \o data')
           /\ buffer' = <<>> ]_vars
  /\ [][ (received' = received + 1 /\ state # READY) =>
           IF Complete(state, buffer \o data')
           THEN state' = READY
           ELSE /\ state' = state
                /\ buffer' = buffer \o data'
                /\ router_version' = router_version ]_vars

\* C12 witness: in INFO the version line came without its terminator, the state
\* stayed INFO, and the chunk with the terminator completed the line.
C12_Witness ==
  /\ state = READY
  /\ received = 3
  /\ data = <<"\r", "\n", ">">>
  /\ router_version = <<"7", ".", "4">>
  /\ tasks["t1"].op = "probe"

\* C13: RouterProtocol.probe always terminates.  Both waits for READY are under
\* the one deadline of probe, so a probe that is running ends; it ends with
\* TimeoutError whenever the state did not reach READY (the prompt or the complete
\* version line never came), and once it has ended the task is no waiter of any
\* state.
C13_ProbeTerminates ==
  /\ \A t \in RouterTasks :
       (tasks[t].op = "probe" /\ tasks[t].pc # "done") ~> (tasks[t].pc = "done")
  /\ [](\A t \in RouterTasks :
          tasks[t].pc \in {"idle", "done"} => \A s \in State : t \notin waiters[s])
  /\ [](\A t \in RouterTasks :
          (tasks[t].op = "probe" /\ tasks[t].pc = "done") =>
            /\ tasks[t].error \in {None, TimeoutError}
            /\ state # READY => tasks[t].error = TimeoutError
            /\ tasks[t].error = None => tasks[t].result # NoBytes)

\* C13 witness: the prompt came, the version line never got its terminator, and
\* probe has ended with TimeoutError, leaving no waiter.
C13_Witness ==
  /\ tasks["t1"].op = "probe"
  /\ tasks["t1"].pc = "done"
  /\ tasks["t1"].error = TimeoutError
  /\ state = INFO
  /\ buffer # <<>>
  /\ \A s \in State : waiters[s] = {}

\* C14: wait_for_state loses no wake-up.  A task never suspends while the state
\* is its target (it returns at once instead); a suspended task that no setter has
\* woken is registered and the state is not its target, so an assignment of the
\* target before, between or after the waiter's registration and its look at the
\* state is seen; an assignment of a state wakes every task registered for it and
\* empties the registrations; the next step of a woken task is its return.
C14_NoLostWakeup ==
  /\ [](\A t \in Tasks :
          (tasks[t].pc = "suspended" /\ ~tasks[t].woken) =>
            (state # tasks[t].target /\ t \in waiters[tasks[t].target]))
  /\ [][ \A t \in Tasks :
           (tasks'[t].pc = "suspended" /\ tasks[t].pc # "suspended") =>
             state # tasks[t].target ]_vars
  /\ [][ \A t \in Tasks :
           (state' # state /\ tasks[t].target = state' /\ t \in waiters[state']) =>
             (tasks'[t].woken /\ waiters'[state'] = {}) ]_vars
  /\ [][ \A t \in Tasks :
           (tasks[t].woken /\ tasks'[t].pc # tasks[t].pc) =>
             (tasks'[t].pc = tasks[t].ret /\ \A s \in State : t \notin waiters'[s]) ]_vars

\* C14 witness: one assignment of READY woke a suspended waiter and a waiter that
\* had registered but not yet looked at the state.
C14_Witness ==
  /\ state = READY
  /\ tasks["t1"].pc = "suspended" /\ tasks["t1"].woken /\ tasks["t1"].target = READY
  /\ tasks["t2"].pc = "wait_2" /\ tasks["t2"].woken /\ tasks["t2"].target = READY
  /\ waiters[READY] = {}

\* C19: in READY incoming bytes are discarded.  Whenever the state is READY the
\* buffer is empty; a data_received call in READY leaves the state READY, leaves
\* the version and the tasks as they are, and ends with an empty buffer; a command
\* is issued in READY, so the match for it begins with an empty buffer.
C19_ReadyDiscardsInput ==
  /\ [](state = READY => buffer = <<>>)
  /\ [][ (state = READY /\ received' = received + 1) =>
           /\ state' = READY
           /\ router_version' = router_version
           /\ buffer' = <<>>
           /\ tasks' = tasks
           /\ waiters' = waiters ]_vars
  /\ [][ \A t \in RouterTasks :
           (tasks[t].pc = "command" /\ tasks'[t].pc # "command") =>
             (state = READY /\ buffer = <<>> /\ buffer' = <<>>) ]_vars

\* C19 witness: the prompt came, then version text arrived in READY: it was
\* dropped, no version is stored.
C19_Witness ==
  /\ state = READY
  /\ received = 2
  /\ data = <<"s", "t", "a", "c", "k", " ", "v", "e", "r", ".", " ", "[", "7", ".", "4", "]">>
  /\ buffer = <<>>
  /\ router_version = NoBytes

\* Every item of the run is the serialisation of a valid frame.
ValidFrames == \A i \in 1..Len(frames) : frames[i] \in {"FRAME1", "FRAME2"}

\* The items before the first one that is no valid frame.
RECURSIVE ValidPrefix(_)
ValidPrefix(items) ==
  IF items = <<>> \/ Head(items) \notin {"FRAME1", "FRAME2"} THEN <<>>
  ELSE <<Head(items)>> \o ValidPrefix(Tail(items))

\* C15: CPC deserialisation does not depend on the chunking.  For every sequence
\* of serialised valid frames, fed one frame per chunk, one byte per chunk or all
\* in one chunk, the frames handed to frame_received are at every moment the first
\* frames of the sequence, in order, each once, and when all bytes are fed they
\* are the whole sequence, with nothing left in the buffer and no checksum failed.
C15_ChunkingInvariance ==
  ValidFrames =>
    /\ Len(frame_received) <= Len(frames)
    /\ \A i \in 1..Len(frame_received) : frame_received[i] = Frame(frames[i])
    /\ ~checksum_failed
    /\ wire = <<>> => (Len(frame_received) = Len(frames) /\ cpc_buffer = <<>>)

\* C15 witness: FRAME1 then FRAME2 were fed a byte at a time and both delivered.
C15_Witness ==
  /\ frames = <<"FRAME1", "FRAME2">>
  /\ chunking = "byte at a time"
  /\ wire = <<>>
  /\ frame_received = <<FRAME1, FRAME2>>

\* C16: a data_received call that meets a failed header checksum, or a failed
\* payload checksum of a complete frame, returns with an empty buffer and delivers
\* no frame from the failing bytes.  Fed whole, the 21 non-protocol bytes and CRLF
\* deliver no frame and leave the buffer empty; a chunk that is garbage or a
\* damaged frame delivers nothing; in one chunk, the frames before the first
\* failing item are delivered and nothing after it.
C16_ChecksumFailureFlushes ==
  /\ [](checksum_failed => cpc_buffer = <<>>)
  /\ []((frames = <<"GARBAGE">> /\ chunking # "byte at a time" /\ wire = <<>>) =>
          (frame_received = <<>> /\ cpc_buffer = <<>> /\ checksum_failed))
  /\ [][ (chunking = "one at a time" /\ wire # <<>> /\ wire' = Tail(wire)
          /\ frames[Len(frames) - Len(wire) + 1] \in {"GARBAGE", "DAMAGED"}) =>
           (frame_received' = frame_received /\ cpc_buffer' = <<>> /\ checksum_failed') ]_vars
  /\ []((chunking = "concatenated" /\ wire = <<>>) =>
          /\ Len(frame_received) = Len(ValidPrefix(frames))
          /\ \A i \in 1..Len(frame_received) : frame_received[i] = Frame(frames[i])
          /\ cpc_buffer = <<>>
          /\ checksum_failed = (ValidPrefix(frames) # frames))

\* C16 witness: the garbage of the test was fed in one chunk: a checksum failed,
\* nothing was delivered, the buffer is empty.
C16_Witness ==
  /\ frames = <<"GARBAGE">>
  /\ chunking = "concatenated"
  /\ wire = <<>>
  /\ checksum_failed
  /\ frame_received = <<>>
  /\ cpc_buffer = <<>>

\* C21: in the exhaustion branch of probe_app_type a bootloader probe result of
\* this call implies a reset target: the result asked to go on probing, which it
\* does only when the firmware was to be launched, and that needs a reset target.
\* Hence the call fails with "Failed to probe running application type" exactly
\* when the loop has run through every candidate and no bootloader probe of the
\* call returned a result: then every candidate was probed, in order, and timed
\* out.
C21_ExhaustionErrorIffNoBootloaderResult ==
  /\ []((Exhausted /\ bootloader_probe # NoProbe) =>
          /\ reset_target # None
          /\ run_firmware
          /\ bootloader_probe.continue_probing)
  /\ [](error = ProbeFailed =>
          /\ Exhausted
          /\ bootloader_probe = NoProbe
          /\ Len(attempts) = Len(Candidates)
          /\ \A i \in 1..Len(attempts) :
               /\ attempts[i].method = Candidates[i][1]
               /\ attempts[i].baudrate = Candidates[i][2]
               /\ attempts[i].outcome = "timeout")
  /\ [][ pc = "pat_else" =>
           ((error' = ProbeFailed) <=> (bootloader_probe = NoProbe)) ]_vars
  /\ []((Exhausted /\ bootloader_probe = NoProbe /\ pc \notin {"pat_loop", "pat_else"}) =>
          error = ProbeFailed)

\* C21 witness: a reset target is configured, the bootloader probe and every
\* other probe timed out, and the call has failed with the exhaustion error.
C21_Witness ==
  /\ op = "probe_app_type" /\ pc = "done" /\ error = ProbeFailed
  /\ reset_target # None
  /\ bootloader_probe = NoProbe
  /\ Len(attempts) = Len(Candidates)
  /\ Len(attempts) >= 2
  /\ attempts[1].method = GECKO_BOOTLOADER

\* The buffer holds a version line whose text is v.
Captured(buf, v) ==
  \E i \in 1..Len(buf) : MatchesAt(buf, i, INFO_PREFIX \o v \o INFO_SUFFIX)

\* C22: the assertion of router_info holds.  When the wait for READY after the
\* INFO command has completed, the state is READY and the version is set; probe
\* never ends with AssertionError and returns the stored version.  The version is
\* stored only in the data_received call that moves INFO to READY, and it is the
\* text of a version line in the bytes received since the command was sent: the
\* command is sent with an empty buffer.
C22_RouterInfoAssertionHolds ==
  /\ [](\A t \in RouterTasks :
          (tasks[t].op = "probe" /\ tasks[t].pc = "finish") =>
            (state = READY /\ router_version # NoBytes))
  /\ [](\A t \in RouterTasks :
          (tasks[t].op = "probe" /\ tasks[t].pc = "done") =>
            /\ tasks[t].error # AssertionError
            /\ tasks[t].error = None =>
                 (tasks[t].result = router_version /\ router_version # NoBytes))
  /\ [][ (router_version' # router_version /\ router_version' # NoBytes) =>
           /\ state = INFO
           /\ state' = READY
           /\ received' = received + 1
           /\ Captured(buffer \o data', router_version') ]_vars
  /\ [][ (state # INFO /\ state' = INFO) => (buffer = <<>> /\ buffer' = <<>>) ]_vars

\* C22 witness: probe has returned the version that the line received after the
\* INFO command carried.
C22_Witness ==
  /\ tasks["t1"].op = "probe"
  /\ tasks["t1"].pc = "done"
  /\ tasks["t1"].error = None
  /\ tasks["t1"].result = <<"7", ".", "4">>
  /\ state = READY

====
